---- MODULE Spec2Model ----
(***************************************************************************)
(* A model of vol2mesh.py: the named-pipe streaming protocol of            *)
(* simplify_mesh (temp_pipe, the writer thread, the fq-mesh-simplify child *)
(* process and the caller), the bounding box and padded window of          *)
(* calcMeshWithCrop, and the vertex transform of mesh_from_array.          *)
(***************************************************************************)
EXTENDS Integers, Sequences, FiniteSets, TLC

\* ------------------------------------------------------------------------
\* Bounds of the model
\* ------------------------------------------------------------------------
\* longest mesh byte stream handed to simplify_mesh
MaxLen == 2
\* bytes a FIFO holds before a write blocks
PipeCap == 1

\* extent of the label volume on each axis
DimZ == 2
DimY == 2
DimX == 2
\* most voxels of the volume that carry a label, and the largest label
MaxFg == 2
MaxLabel == 2
\* most vertices of a raw vertex buffer, their largest coordinate, and the
\* largest downsample factor and multiplier k
MaxVerts == 1
MaxCoord == 1
MaxFactor == 2

Calls == {"a", "b"}
Bytes == {0, 1}
\* exit codes of the child: success, failure, "command not found" of sh -c
ExitCodes == {0, 1, 127}

BSeq(n) == UNION {[1..k -> Bytes] : k \in 0..n}
Inputs == BSeq(MaxLen)

\* ------------------------------------------------------------------------
\* State of the pipe streamer
\* ------------------------------------------------------------------------
VARIABLES
    pc,           \* per call: the statement of simplify_mesh the caller is at
    wpc,          \* per call: position of the write_mesh thread
    cpc,          \* per call: position of the child process
    rc,           \* per call: proc.returncode
    deviated,     \* per call: the child left its protocol (crashed, skipped)
    dirs,         \* directories that exist
    nextDir,      \* source of the names tempfile.mkdtemp has not used yet
    links,        \* paths of the FIFOs that exist in the filesystem
    pipes,        \* FIFO objects by the path they were created at
    mesh_path,    \* per call: path yielded by temp_pipe('mesh.obj')
    simple_path,  \* per call: path yielded by temp_pipe('simple.obj')
    given,        \* per call: the bytes of mesh_obj_stream at the call
    stream,       \* per call: what is left to read of mesh_obj_stream
    childIn,      \* per call: bytes the child has read from the request pipe
    childOut,     \* per call: bytes the child has still to write
    childWrote,   \* per call: bytes the child has written to the response pipe
    data,         \* per call: bytes f.read() has collected
    pending,      \* per call: return value or exception in flight
    outcome       \* per call: what the caller of simplify_mesh got

pipeVars == <<pc, wpc, cpc, rc, deviated, dirs, nextDir, links, pipes, mesh_path,
              simple_path, given, stream, childIn, childOut, childWrote, data,
              pending, outcome>>

\* ------------------------------------------------------------------------
\* State of calcMeshWithCrop up to the padded window
\* ------------------------------------------------------------------------
VARIABLES
    labelStack,   \* the label volume, by <<i0, i1, i2>>
    bpc,          \* the statement calcMeshWithCrop is at
    box,          \* box returned by findBBDimensions
    window,       \* labelStack[box[0]:box[1], box[2]:box[3], box[4]:box[5]]
    windowShape,  \* window.shape
    blankImg,     \* the padded boolean volume
    paddedWindowSize

boxVars == <<labelStack, bpc, box, window, windowShape, blankImg, paddedWindowSize>>

\* ------------------------------------------------------------------------
\* State of the vertex transform of mesh_from_array, run twice on the same
\* raw buffer: once with downsample_factor, once with k * downsample_factor
\* ------------------------------------------------------------------------
VARIABLES
    raw,          \* vertices_xyz as returned by march
    box_zyx,      \* [(z0,y0,x0), (z1,y1,x1)]
    factor,       \* per run: downsample_factor
    scale,        \* the multiplier k
    vertices_xyz, \* per run: the vertex buffer
    tpc           \* per run: the statement mesh_from_array is at

xformVars == <<raw, box_zyx, factor, scale, vertices_xyz, tpc>>

vars == <<pipeVars, boxVars, xformVars>>

NoPath == <<>>
NoCode == -1

NoOutcome == [kind |-> "none", code |-> 0, bytes |-> <<>>]
Returns(b) == [kind |-> "return", code |-> 0, bytes |-> b]
Raises(e, code) == [kind |-> e, code |-> code, bytes |-> <<>>]

EmptyPipe == [rd |-> "none", wr |-> "none", buf |-> <<>>]

\* ------------------------------------------------------------------------
\* Helpers
\* ------------------------------------------------------------------------
Min(a, b) == IF a < b THEN a ELSE b

\* variant: the response pipe is opened before the child is spawned
ProgramSpawnLate ==
    <<"enter_mesh", "enter_simple", "start_writer", "open_resp", "popen",
      "read", "wait", "exit_simple", "exit_mesh", "done">>

\* the statements of simplify_mesh in program order
Program ==
    <<"enter_mesh", "enter_simple", "start_writer", "popen", "open_resp",
      "read", "wait", "exit_simple", "exit_mesh", "done">>

Goto(l) == Program[(CHOOSE i \in 1..Len(Program) : Program[i] = l) + 1]

\* variant: a directory that exists is used again
mkdtempReused == IF dirs = {} THEN nextDir ELSE CHOOSE d \in dirs : TRUE

\* tempfile.mkdtemp: a directory name that does not exist yet
mkdtemp == nextDir

\* variant: bytes that were read are returned whatever the exit code
FinallyOutcomeLenient(code, bytes) ==
    IF code # 0 /\ bytes = <<>> THEN Raises("RuntimeError", code) ELSE Returns(bytes)

\* the finally block of simplify_mesh: the raise replaces the pending return
FinallyOutcome(code, bytes) ==
    IF code # 0 THEN Raises("RuntimeError", code) ELSE Returns(bytes)

\* what a well-behaved fq-mesh-simplify writes for the mesh it read: a stand-in
\* for the external tool, which keeps part of the input
Simplified(s) == SubSeq(s, 1, (Len(s) + 1) \div 2)

\* the request pipe has a process at its read end (open, or inside open())
HasReader(c) ==
    LET p == pipes[mesh_path[c]]
    IN  p.rd = "open" \/ (p.rd = "none" /\ cpc[c] = "open_req")

\* the response pipe has a process at its write end (open, or inside open())
HasWriter(c) ==
    LET p == pipes[simple_path[c]]
    IN  p.wr = "open" \/ (p.wr = "none" /\ cpc[c] = "open_resp")

\* ------------------------------------------------------------------------
\* Initial state
\* ------------------------------------------------------------------------
PipeInit ==
    /\ pc = [c \in Calls |-> "enter_mesh"]
    /\ wpc = [c \in Calls |-> "unstarted"]
    /\ cpc = [c \in Calls |-> "unspawned"]
    /\ rc = [c \in Calls |-> NoCode]
    /\ deviated = [c \in Calls |-> FALSE]
    /\ dirs = {}
    /\ nextDir = 1
    /\ links = {}
    /\ pipes = <<>>
    /\ mesh_path = [c \in Calls |-> NoPath]
    /\ simple_path = [c \in Calls |-> NoPath]
    /\ given \in [Calls -> Inputs]
    /\ stream = given
    /\ childIn = [c \in Calls |-> <<>>]
    /\ childOut = [c \in Calls |-> <<>>]
    /\ childWrote = [c \in Calls |-> <<>>]
    /\ data = [c \in Calls |-> <<>>]
    /\ pending = [c \in Calls |-> NoOutcome]
    /\ outcome = [c \in Calls |-> NoOutcome]

\* ------------------------------------------------------------------------
\* The caller: simplify_mesh and temp_pipe
\* ------------------------------------------------------------------------
\* entering `with temp_pipe(name)`: mkdtemp, mkfifo, yield path
TempPipeEnter(c) ==
    /\ pc[c] \in {"enter_mesh", "enter_simple"}
    /\ LET name == IF pc[c] = "enter_mesh" THEN "mesh.obj" ELSE "simple.obj"
           dir == mkdtemp
           path == <<dir, name>>
       IN  /\ dirs' = dirs \cup {dir}
           /\ nextDir' = nextDir + 1
           /\ IF path \in links
              THEN \* os.mkfifo raises FileExistsError; an enclosing temp_pipe
                   \* sees the exception at its yield
                   /\ pending' = [pending EXCEPT ![c] = Raises("FileExistsError", 0)]
                   /\ pc' = [pc EXCEPT ![c] =
                               IF pc[c] = "enter_mesh" THEN "done" ELSE "exit_mesh"]
                   /\ outcome' = [outcome EXCEPT ![c] =
                               IF pc[c] = "enter_mesh" THEN pending'[c] ELSE @]
                   /\ UNCHANGED <<links, pipes, mesh_path, simple_path>>
              ELSE /\ links' = links \cup {path}
                   /\ pipes' = (path :> EmptyPipe) @@ pipes
                   /\ IF pc[c] = "enter_mesh"
                      THEN /\ mesh_path' = [mesh_path EXCEPT ![c] = path]
                           /\ UNCHANGED simple_path
                      ELSE /\ simple_path' = [simple_path EXCEPT ![c] = path]
                           /\ UNCHANGED mesh_path
                   /\ pc' = [pc EXCEPT ![c] = Goto(pc[c])]
                   /\ UNCHANGED <<pending, outcome>>
    /\ UNCHANGED <<wpc, cpc, rc, deviated, given, stream, childIn, childOut,
                   childWrote, data>>
    /\ UNCHANGED <<boxVars, xformVars>>

\* variant: write_mesh is called by the caller itself, which then blocks in
\* open(mesh_path, 'wb') with no child to read
StartWriterInline(c) ==
    /\ pc[c] = "start_writer"
    /\ pc' = [pc EXCEPT ![c] = "write_mesh"]
    /\ UNCHANGED <<wpc, cpc, rc, deviated, dirs, nextDir, links, pipes, mesh_path,
                   simple_path, given, stream, childIn, childOut, childWrote,
                   data, pending, outcome>>
    /\ UNCHANGED <<boxVars, xformVars>>

\* threading.Thread(target=write_mesh).start()
StartWriter(c) ==
    /\ pc[c] = "start_writer"
    /\ wpc' = [wpc EXCEPT ![c] = "open"]
    /\ pc' = [pc EXCEPT ![c] = Goto(pc[c])]
    /\ UNCHANGED <<cpc, rc, deviated, dirs, nextDir, links, pipes, mesh_path,
                   simple_path, given, stream, childIn, childOut, childWrote,
                   data, pending, outcome>>
    /\ UNCHANGED <<boxVars, xformVars>>

\* proc = subprocess.Popen(cmd, shell=True)
Popen(c) ==
    /\ pc[c] = "popen"
    /\ cpc' = [cpc EXCEPT ![c] = "open_req"]
    /\ pc' = [pc EXCEPT ![c] = Goto(pc[c])]
    /\ UNCHANGED <<wpc, rc, deviated, dirs, nextDir, links, pipes, mesh_path,
                   simple_path, given, stream, childIn, childOut, childWrote,
                   data, pending, outcome>>
    /\ UNCHANGED <<boxVars, xformVars>>

\* open(simple_path, 'rb'): blocks until the FIFO has a writer
OpenResp(c) ==
    /\ pc[c] = "open_resp"
    /\ simple_path[c] \in links
    /\ LET p == simple_path[c]
       IN  /\ cpc[c] = "open_resp" \/ pipes[p].wr # "none"
           /\ pipes' = [pipes EXCEPT ![p].rd = "open"]
    /\ pc' = [pc EXCEPT ![c] = Goto(pc[c])]
    /\ UNCHANGED <<wpc, cpc, rc, deviated, dirs, nextDir, links, mesh_path,
                   simple_path, given, stream, childIn, childOut, childWrote,
                   data, pending, outcome>>
    /\ UNCHANGED <<boxVars, xformVars>>

\* f.read(): collect what the pipe holds until end of file, then close f
ReadResp(c) ==
    /\ pc[c] = "read"
    /\ LET p == simple_path[c]
       IN  IF pipes[p].buf # <<>>
           THEN /\ data' = [data EXCEPT ![c] = @ \o pipes[p].buf]
                /\ pipes' = [pipes EXCEPT ![p].buf = <<>>]
                /\ UNCHANGED pc
           ELSE /\ ~HasWriter(c)
                /\ pipes' = [pipes EXCEPT ![p].rd = "closed"]
                /\ pc' = [pc EXCEPT ![c] = Goto(pc[c])]
                /\ UNCHANGED data
    /\ UNCHANGED <<wpc, cpc, rc, deviated, dirs, nextDir, links, mesh_path,
                   simple_path, given, stream, childIn, childOut, childWrote,
                   pending, outcome>>
    /\ UNCHANGED <<boxVars, xformVars>>

\* finally: proc.wait(), then raise if the return code is not 0
ProcWait(c) ==
    /\ pc[c] = "wait"
    /\ cpc[c] = "exited"
    /\ pending' = [pending EXCEPT ![c] = FinallyOutcome(rc[c], data[c])]
    /\ pc' = [pc EXCEPT ![c] = Goto(pc[c])]
    /\ UNCHANGED <<wpc, cpc, rc, deviated, dirs, nextDir, links, pipes, mesh_path,
                   simple_path, given, stream, childIn, childOut, childWrote,
                   data, outcome>>
    /\ UNCHANGED <<boxVars, xformVars>>

\* leaving `with temp_pipe(name)`: the code after the yield runs only when the
\* body raised nothing (the generator has no try/finally around the yield)
TempPipeExit(c) ==
    /\ pc[c] \in {"exit_simple", "exit_mesh"}
    /\ LET path == IF pc[c] = "exit_simple" THEN simple_path[c] ELSE mesh_path[c]
           dir == path[1]
           left == links \ {path}
           result == IF pending[c].kind # "return"
                     THEN pending[c]
                     ELSE IF \E q \in left : q[1] = dir
                          THEN Raises("OSError", 0)   \* os.rmdir: not empty
                          ELSE pending[c]
       IN  /\ IF pending[c].kind = "return"
              THEN /\ links' = left
                   /\ dirs' = IF result.kind = "return" THEN dirs \ {dir} ELSE dirs
              ELSE UNCHANGED <<links, dirs>>
           /\ pending' = [pending EXCEPT ![c] = result]
           /\ pc' = [pc EXCEPT ![c] = Goto(pc[c])]
           /\ outcome' = [outcome EXCEPT ![c] =
                             IF pc[c] = "exit_mesh" THEN result ELSE @]
    /\ UNCHANGED <<wpc, cpc, rc, deviated, nextDir, pipes, mesh_path, simple_path,
                   given, stream, childIn, childOut, childWrote, data>>
    /\ UNCHANGED <<boxVars, xformVars>>

\* ------------------------------------------------------------------------
\* The writer thread: write_mesh
\* ------------------------------------------------------------------------
\* open(mesh_path, 'wb'): blocks until the FIFO has a reader; the thread is
\* inside open() from its start, so a later unlink does not affect it
WriterOpen(c) ==
    /\ wpc[c] = "open"
    /\ LET p == mesh_path[c]
       IN  /\ cpc[c] = "open_req" \/ pipes[p].rd # "none"
           /\ pipes' = [pipes EXCEPT ![p].wr = "open"]
    /\ wpc' = [wpc EXCEPT ![c] = "copy"]
    /\ UNCHANGED <<pc, cpc, rc, deviated, dirs, nextDir, links, mesh_path,
                   simple_path, given, stream, childIn, childOut, childWrote,
                   data, pending, outcome>>
    /\ UNCHANGED <<boxVars, xformVars>>

\* copyfileobj(mesh_obj_stream, f), then the close of f at the end of the with
WriterCopy(c) ==
    /\ wpc[c] = "copy"
    /\ LET p == mesh_path[c]
           n == Min(Len(stream[c]), PipeCap - Len(pipes[p].buf))
       IN  IF stream[c] = <<>>
           THEN /\ pipes' = [pipes EXCEPT ![p].wr = "closed"]
                /\ wpc' = [wpc EXCEPT ![c] = "finishing"]
                /\ UNCHANGED stream
           ELSE IF ~HasReader(c)
                THEN \* BrokenPipeError ends the thread
                     /\ pipes' = [pipes EXCEPT ![p].wr = "closed"]
                     /\ wpc' = [wpc EXCEPT ![c] = "failed"]
                     /\ UNCHANGED stream
                ELSE /\ n > 0
                     /\ pipes' = [pipes EXCEPT ![p].buf = @ \o SubSeq(stream[c], 1, n)]
                     /\ stream' = [stream EXCEPT ![c] = SubSeq(@, n + 1, Len(@))]
                     /\ UNCHANGED wpc
    /\ UNCHANGED <<pc, cpc, rc, deviated, dirs, nextDir, links, mesh_path,
                   simple_path, given, childIn, childOut, childWrote, data,
                   pending, outcome>>
    /\ UNCHANGED <<boxVars, xformVars>>

\* write_mesh returns and the thread ends
WriterExit(c) ==
    /\ wpc[c] = "finishing"
    /\ wpc' = [wpc EXCEPT ![c] = "done"]
    /\ UNCHANGED <<pc, cpc, rc, deviated, dirs, nextDir, links, pipes, mesh_path,
                   simple_path, given, stream, childIn, childOut, childWrote,
                   data, pending, outcome>>
    /\ UNCHANGED <<boxVars, xformVars>>

\* ------------------------------------------------------------------------
\* The child process: fq-mesh-simplify "mesh_path" "simple_path" ratio
\* ------------------------------------------------------------------------
\* the child opens the request pipe for reading
ChildOpenReq(c) ==
    /\ cpc[c] = "open_req"
    /\ mesh_path[c] \in links
    /\ LET p == mesh_path[c]
       IN  /\ wpc[c] = "open" \/ pipes[p].wr # "none"
           /\ pipes' = [pipes EXCEPT ![p].rd = "open"]
    /\ cpc' = [cpc EXCEPT ![c] = "reading"]
    /\ UNCHANGED <<pc, wpc, rc, deviated, dirs, nextDir, links, mesh_path,
                   simple_path, given, stream, childIn, childOut, childWrote,
                   data, pending, outcome>>
    /\ UNCHANGED <<boxVars, xformVars>>

\* the child reads the request pipe; at end of file it closes it and has its
\* output ready
ChildRead(c) ==
    /\ cpc[c] = "reading"
    /\ LET p == mesh_path[c]
       IN  IF pipes[p].buf # <<>>
           THEN /\ childIn' = [childIn EXCEPT ![c] = @ \o pipes[p].buf]
                /\ pipes' = [pipes EXCEPT ![p].buf = <<>>]
                /\ UNCHANGED <<cpc, childOut>>
           ELSE /\ pipes[p].wr = "closed"
                /\ pipes' = [pipes EXCEPT ![p].rd = "closed"]
                /\ cpc' = [cpc EXCEPT ![c] = "open_resp"]
                /\ childOut' = [childOut EXCEPT ![c] = Simplified(childIn[c])]
                /\ UNCHANGED childIn
    /\ UNCHANGED <<pc, wpc, rc, deviated, dirs, nextDir, links, mesh_path,
                   simple_path, given, stream, childWrote, data, pending, outcome>>
    /\ UNCHANGED <<boxVars, xformVars>>

\* the child opens the response pipe for writing
ChildOpenResp(c) ==
    /\ cpc[c] = "open_resp"
    /\ simple_path[c] \in links
    /\ LET p == simple_path[c]
       IN  /\ pc[c] = "open_resp" \/ pipes[p].rd # "none"
           /\ pipes' = [pipes EXCEPT ![p].wr = "open"]
    /\ cpc' = [cpc EXCEPT ![c] = "writing"]
    /\ UNCHANGED <<pc, wpc, rc, deviated, dirs, nextDir, links, mesh_path,
                   simple_path, given, stream, childIn, childOut, childWrote,
                   data, pending, outcome>>
    /\ UNCHANGED <<boxVars, xformVars>>

\* the child writes its output, then closes the response pipe
ChildWrite(c) ==
    /\ cpc[c] = "writing"
    /\ LET p == simple_path[c]
           n == Min(Len(childOut[c]), PipeCap - Len(pipes[p].buf))
       IN  IF childOut[c] = <<>>
           THEN /\ pipes' = [pipes EXCEPT ![p].wr = "closed"]
                /\ cpc' = [cpc EXCEPT ![c] = "exiting"]
                /\ UNCHANGED <<childOut, childWrote>>
           ELSE /\ n > 0
                /\ pipes' = [pipes EXCEPT ![p].buf = @ \o SubSeq(childOut[c], 1, n)]
                /\ childWrote' = [childWrote EXCEPT ![c] = @ \o SubSeq(childOut[c], 1, n)]
                /\ childOut' = [childOut EXCEPT ![c] = SubSeq(@, n + 1, Len(@))]
                /\ UNCHANGED cpc
    /\ UNCHANGED <<pc, wpc, rc, deviated, dirs, nextDir, links, mesh_path,
                   simple_path, given, stream, childIn, data, pending, outcome>>
    /\ UNCHANGED <<boxVars, xformVars>>

\* the child exits with code 0 after its work
ChildExit(c) ==
    /\ cpc[c] = "exiting"
    /\ cpc' = [cpc EXCEPT ![c] = "exited"]
    /\ rc' = [rc EXCEPT ![c] = 0]
    /\ UNCHANGED <<pc, wpc, deviated, dirs, nextDir, links, pipes, mesh_path,
                   simple_path, given, stream, childIn, childOut, childWrote,
                   data, pending, outcome>>
    /\ UNCHANGED <<boxVars, xformVars>>

\* the ends of the call's pipes that the child holds are closed
CloseChildEnds(c) ==
    LET mp == mesh_path[c]
        sp == simple_path[c]
    IN  [pipes EXCEPT ![mp].rd = IF @ = "open" THEN "closed" ELSE @,
                      ![sp].wr = IF @ = "open" THEN "closed" ELSE @]

\* the child ends early or with an error: the shell did not find the
\* executable, the tool crashed or rejected its input
ChildDie(c, code) ==
    /\ cpc[c] \in {"open_req", "reading", "open_resp", "writing", "exiting"}
    /\ cpc[c] = "exiting" => code # 0
    /\ cpc' = [cpc EXCEPT ![c] = "exited"]
    /\ rc' = [rc EXCEPT ![c] = code]
    /\ deviated' = [deviated EXCEPT ![c] = TRUE]
    /\ pipes' = CloseChildEnds(c)
    /\ UNCHANGED <<pc, wpc, dirs, nextDir, links, mesh_path, simple_path, given,
                   stream, childIn, childOut, childWrote, data, pending, outcome>>
    /\ UNCHANGED <<boxVars, xformVars>>

\* the child gives up on the request pipe (never opens it, or stops reading
\* before end of file) and goes on to its output
ChildSkipRequest(c) ==
    /\ cpc[c] \in {"open_req", "reading"}
    /\ cpc' = [cpc EXCEPT ![c] = "open_resp"]
    /\ deviated' = [deviated EXCEPT ![c] = TRUE]
    /\ pipes' = [pipes EXCEPT ![mesh_path[c]].rd = IF @ = "open" THEN "closed" ELSE @]
    /\ childOut' = [childOut EXCEPT ![c] = Simplified(childIn[c])]
    /\ UNCHANGED <<pc, wpc, rc, dirs, nextDir, links, mesh_path, simple_path,
                   given, stream, childIn, childWrote, data, pending, outcome>>
    /\ UNCHANGED <<boxVars, xformVars>>

\* ------------------------------------------------------------------------
\* calcMeshWithCrop: bounding box, crop and pad
\* ------------------------------------------------------------------------
Shape == <<DimZ, DimY, DimX>>

Coords(shape) == (0..(shape[1] - 1)) \X (0..(shape[2] - 1)) \X (0..(shape[3] - 1))

RECURSIVE FgSets(_)
FgSets(n) ==
    IF n = 0 THEN {{}}
    ELSE LET P == FgSets(n - 1) IN P \cup {s \cup {c} : s \in P, c \in Coords(Shape)}

\* label volumes with at most MaxFg labelled voxels
Volumes ==
    {[c \in Coords(Shape) |-> IF c \in s THEN l ELSE 0] :
        s \in FgSets(MaxFg), l \in 1..MaxLabel}

\* position n of a C-ordered array of the given shape
Unravel(n, shape) ==
    <<n \div (shape[2] * shape[3]), (n \div shape[3]) % shape[2], n % shape[3]>>

\* np.where(arr > 0): one index sequence per axis, in C order
RECURSIVE WhereFrom(_, _, _)
WhereFrom(arr, shape, n) ==
    IF n >= shape[1] * shape[2] * shape[3] THEN <<<<>>, <<>>, <<>>>>
    ELSE LET rest == WhereFrom(arr, shape, n + 1)
             c == Unravel(n, shape)
         IN  IF arr[c] > 0
             THEN <<<<c[1]>> \o rest[1], <<c[2]>> \o rest[2], <<c[3]>> \o rest[3]>>
             ELSE rest

Where(arr, shape) == WhereFrom(arr, shape, 0)

\* min(s) and max(s) of a non-empty sequence
RECURSIVE MinOf(_)
MinOf(s) ==
    IF Len(s) = 1 THEN s[1]
    ELSE LET m == MinOf(Tail(s)) IN IF s[1] < m THEN s[1] ELSE m

RECURSIVE MaxOf(_)
MaxOf(s) ==
    IF Len(s) = 1 THEN s[1]
    ELSE LET m == MaxOf(Tail(s)) IN IF s[1] > m THEN s[1] ELSE m

\* variant: the max fields are the last index, not one past it
findBBDimensionsInclusive(listOfPixels) ==
    LET xs == listOfPixels[1]
        ys == listOfPixels[2]
        zs == listOfPixels[3]
    IN  IF Len(xs) = 0
        THEN [raised |-> TRUE, box |-> <<>>, dimensions |-> <<>>]
        ELSE [raised |-> FALSE,
              box |-> <<MinOf(xs), MaxOf(xs), MinOf(ys), MaxOf(ys), MinOf(zs), MaxOf(zs)>>,
              dimensions |-> <<MaxOf(xs) - MinOf(xs), MaxOf(ys) - MinOf(ys),
                               MaxOf(zs) - MinOf(zs)>>]

\* findBBDimensions: min() of an empty sequence raises ValueError
findBBDimensions(listOfPixels) ==
    LET xs == listOfPixels[1]
        ys == listOfPixels[2]
        zs == listOfPixels[3]
    IN  IF Len(xs) = 0
        THEN [raised |-> TRUE, box |-> <<>>, dimensions |-> <<>>]
        ELSE LET minxs == MinOf(xs)
                 maxxs == MaxOf(xs)
                 minys == MinOf(ys)
                 maxys == MaxOf(ys)
                 minzs == MinOf(zs)
                 maxzs == MaxOf(zs)
             IN  [raised |-> FALSE,
                  box |-> <<minxs, maxxs + 1, minys, maxys + 1, minzs, maxzs + 1>>,
                  dimensions |-> <<maxxs - minxs, maxys - minys, maxzs - minzs>>]

\* labelStack[b0:b1, b2:b3, b4:b5] for a box inside the volume
Crop(arr, b) ==
    [c \in Coords(<<b[2] - b[1], b[4] - b[3], b[6] - b[5]>>) |->
        arr[<<c[1] + b[1], c[2] + b[3], c[3] + b[5]>>]]

\* variant: the window is copied without the offset of one
PadIndexSame(i) == i

\* the index at which a voxel of the window is written into blankImg
PadIndex(i) == i + 1

\* np.zeros(size, dtype=bool) with the listed positions set to 1
Padded(size, localIndices) ==
    [p \in Coords(size) |->
        \E n \in 1..Len(localIndices[1]) :
            p = <<PadIndex(localIndices[1][n]), PadIndex(localIndices[2][n]),
                  PadIndex(localIndices[3][n])>>]

BoxIdle ==
    /\ labelStack = <<>>
    /\ bpc = "idle"
    /\ box = <<>>
    /\ window = <<>>
    /\ windowShape = <<>>
    /\ blankImg = <<>>
    /\ paddedWindowSize = <<>>

BoxStart ==
    /\ labelStack \in Volumes
    /\ bpc = "where"
    /\ box = <<>>
    /\ window = <<>>
    /\ windowShape = <<>>
    /\ blankImg = <<>>
    /\ paddedWindowSize = <<>>

\* indices = np.where(labelStack>0); box, dimensions = findBBDimensions(indices)
FindBox ==
    /\ bpc = "where"
    /\ LET r == findBBDimensions(Where(labelStack, Shape))
       IN  IF r.raised
           THEN /\ bpc' = "raised"
                /\ UNCHANGED box
           ELSE /\ bpc' = "crop"
                /\ box' = r.box
    /\ UNCHANGED <<labelStack, window, windowShape, blankImg, paddedWindowSize>>
    /\ UNCHANGED <<pipeVars, xformVars>>

\* window, localIndices, paddedWindowSize and blankImg
CropPad ==
    /\ bpc = "crop"
    /\ LET w == Crop(labelStack, box)
           shape == <<box[2] - box[1], box[4] - box[3], box[6] - box[5]>>
           localIndices == Where(w, shape)
           size == [i \in 1..3 |-> shape[i] + 2]
       IN  /\ window' = w
           /\ windowShape' = shape
           /\ paddedWindowSize' = size
           /\ blankImg' = Padded(size, localIndices)
    /\ bpc' = "march"
    /\ UNCHANGED <<labelStack, box>>
    /\ UNCHANGED <<pipeVars, xformVars>>

\* ------------------------------------------------------------------------
\* mesh_from_array: rescale and translate
\* ------------------------------------------------------------------------
Runs == {"base", "scaled"}

Vertex == (0..MaxCoord) \X (0..MaxCoord) \X (0..MaxCoord)
RawBuffers == UNION {[1..n -> Vertex] : n \in 0..MaxVerts}

\* boxes in global coordinates, [(z0,y0,x0), (z1,y1,x1)]
Boxes ==
    {<<<<0, 0, 0>>, <<2, 3, 4>>>>,
     <<<<1, 2, 3>>, <<2, 4, 6>>>>,
     <<<<0, 0, 5>>, <<1, 1, 6>>>>}

\* np.asarray(box_zyx)[:,::-1]
BoxXyz(b) == [i \in 1..2 |-> <<b[i][3], b[i][2], b[i][1]>>]

\* variant: the translation is the maximum corner
OriginMaxCorner(b) == BoxXyz(b)[2]

\* the corner of box_xyz that every vertex is translated by
Origin(b) == BoxXyz(b)[1]

XformIdle ==
    /\ raw = <<>>
    /\ box_zyx = <<>>
    /\ factor = <<>>
    /\ scale = 0
    /\ vertices_xyz = <<>>
    /\ tpc = <<>>

XformStart ==
    /\ raw \in RawBuffers
    /\ box_zyx \in Boxes
    /\ scale \in 0..MaxFactor
    /\ \E f \in 1..MaxFactor : factor = [r \in Runs |-> IF r = "base" THEN f ELSE scale * f]
    /\ vertices_xyz = [r \in Runs |-> raw]
    /\ tpc = [r \in Runs |-> "rescale"]

\* vertices_xyz[:] *= downsample_factor
Rescale(r) ==
    /\ tpc[r] = "rescale"
    /\ vertices_xyz' = [vertices_xyz EXCEPT ![r] =
           [i \in 1..Len(@) |-> <<@[i][1] * factor[r], @[i][2] * factor[r],
                                  @[i][3] * factor[r]>>]]
    /\ tpc' = [tpc EXCEPT ![r] = "translate"]
    /\ UNCHANGED <<raw, box_zyx, factor, scale>>
    /\ UNCHANGED <<pipeVars, boxVars>>

\* vertices_xyz[:] += box_xyz[0]
Translate(r) ==
    /\ tpc[r] = "translate"
    /\ LET o == Origin(box_zyx)
       IN  vertices_xyz' = [vertices_xyz EXCEPT ![r] =
               [i \in 1..Len(@) |-> <<@[i][1] + o[1], @[i][2] + o[2], @[i][3] + o[3]>>]]
    /\ tpc' = [tpc EXCEPT ![r] = "faces"]
    /\ UNCHANGED <<raw, box_zyx, factor, scale>>
    /\ UNCHANGED <<pipeVars, boxVars>>

\* ------------------------------------------------------------------------
\* Specifications
\* ------------------------------------------------------------------------
MainStep(c) ==
    \/ TempPipeEnter(c)
    \/ StartWriter(c)
    \/ Popen(c)
    \/ OpenResp(c)
    \/ ReadResp(c)
    \/ ProcWait(c)
    \/ TempPipeExit(c)

WriterStep(c) ==
    \/ WriterOpen(c)
    \/ WriterCopy(c)
    \/ WriterExit(c)

ChildStep(c) ==
    \/ ChildOpenReq(c)
    \/ ChildRead(c)
    \/ ChildOpenResp(c)
    \/ ChildWrite(c)
    \/ ChildExit(c)

ChildFault(c) ==
    \/ \E code \in ExitCodes : ChildDie(c, code)
    \/ ChildSkipRequest(c)

CallStep(c) == MainStep(c) \/ WriterStep(c) \/ ChildStep(c) \/ ChildFault(c)

\* the caller, the writer thread and a running child are each scheduled
Fair(c) == WF_vars(MainStep(c)) /\ WF_vars(WriterStep(c)) /\ WF_vars(ChildStep(c))

\* one call of simplify_mesh, with a child that may fail in any way
Init == PipeInit /\ given["b"] = <<>> /\ BoxIdle /\ XformIdle
Next == CallStep("a")
Spec == Init /\ [][Next]_vars
FairSpec == Spec /\ Fair("a")

\* two calls of simplify_mesh at the same time, on distinct inputs, each with
\* a child that follows its protocol
PairInputs ==
    {g \in [Calls -> Inputs \ {<<>>}] :
        /\ Len(g["a"]) = MaxLen
        /\ \A i \in 1..Len(g["a"]) : g["a"][i] = 0
        /\ \A i \in 1..Len(g["b"]) : g["b"][i] = 1}

PairInit == PipeInit /\ given \in PairInputs /\ BoxIdle /\ XformIdle
PairStep(c) == MainStep(c) \/ WriterStep(c) \/ ChildStep(c)
PairNext == \E c \in Calls : PairStep(c)
PairSpec == PairInit /\ [][PairNext]_vars
PairFairSpec == PairSpec /\ \A c \in Calls : Fair(c)

PipeIdle == PipeInit /\ given = [c \in Calls |-> <<>>]

\* calcMeshWithCrop on every volume of the bounds
BoxInit == PipeIdle /\ BoxStart /\ XformIdle
BoxNext == FindBox \/ CropPad
BoxSpec == BoxInit /\ [][BoxNext]_vars

\* the two runs of the vertex transform
XformInit == PipeIdle /\ BoxIdle /\ XformStart
XformNext == \E r \in Runs : Rescale(r) \/ Translate(r)
XformSpec == XformInit /\ [][XformNext]_vars

\* ------------------------------------------------------------------------
\* Properties
\* ------------------------------------------------------------------------
Cleaned(c) ==
    /\ mesh_path[c] # NoPath => mesh_path[c] \notin links /\ mesh_path[c][1] \notin dirs
    /\ simple_path[c] # NoPath => simple_path[c] \notin links /\ simple_path[c][1] \notin dirs

\* C1: when a call of simplify_mesh has ended, by return or by exception, the
\* two pipes and the two directories temp_pipe made for it no longer exist.
C1_PipesRemovedOnEveryExit ==
    \A c \in Calls : pc[c] = "done" => Cleaned(c)

ChildDiedUnopened(c) ==
    /\ cpc[c] = "exited"
    /\ pipes[mesh_path[c]].rd = "none"
    /\ pipes[simple_path[c]].wr = "none"

\* C3: a child that ends without ever opening a pipe leads to the call ending
\* with an error.
C3_DeadChildEndsCall ==
    (ChildDiedUnopened("a")) ~> (pc["a"] = "done" /\ outcome["a"].kind \notin {"none", "return"})

\* C4: with a child that follows its protocol and exits 0, the call returns,
\* and it returns exactly the bytes the child wrote to the response pipe.
C4_WellBehavedChildReturns ==
    /\ [](pc["a"] = "done" /\ ~deviated["a"] => outcome["a"] = Returns(childWrote["a"]))
    /\ <>(deviated["a"] \/ (pc["a"] = "done" /\ outcome["a"] = Returns(childWrote["a"])))

C4_Witness ==
    /\ pc["a"] = "done"
    /\ ~deviated["a"]
    /\ Len(given["a"]) > PipeCap
    /\ outcome["a"].kind = "return"
    /\ outcome["a"].bytes # <<>>
    /\ outcome["a"].bytes = childWrote["a"]

PathsOf(c) == {mesh_path[c], simple_path[c]} \ {NoPath}
DirsOf(c) == {p[1] : p \in PathsOf(c)}

\* every byte in a call's pipes comes from that call's stream and child
OwnBytesOnly(c) ==
    /\ mesh_path[c] # NoPath =>
           childIn[c] \o pipes[mesh_path[c]].buf \o stream[c] = given[c]
    /\ simple_path[c] # NoPath =>
           data[c] \o pipes[simple_path[c]].buf = childWrote[c]

Isolated ==
    /\ \A c \in Calls : OwnBytesOnly(c)
    /\ \A c, d \in Calls :
           c # d => PathsOf(c) \cap PathsOf(d) = {} /\ DirsOf(c) \cap DirsOf(d) = {}

\* C5: two concurrent calls use disjoint directories and pipe paths, the bytes
\* in a call's pipes are its own, and both calls return their own child's
\* output when the children follow their protocol.
C5_ConcurrentCallsIsolated ==
    /\ []Isolated
    /\ \A c \in Calls :
           <>(pc[c] = "done" /\ outcome[c] = Returns(Simplified(given[c])))

C5_Witness ==
    /\ Cardinality(links) = 4
    /\ Cardinality(dirs) = 4
    /\ \A c \in Calls : pc[c] = "read" /\ data[c] # <<>> /\ cpc[c] = "writing"

\* C6: the pipes exist before the writer thread starts, the writer thread is
\* started before the child is spawned, and the caller is at or past the open
\* of the response pipe only when the child has been spawned.
C6_StepOrder ==
    \A c \in Calls :
        /\ wpc[c] # "unstarted" =>
               /\ mesh_path[c] # NoPath /\ simple_path[c] # NoPath
               /\ {mesh_path[c], simple_path[c]} \subseteq DOMAIN pipes
        /\ cpc[c] # "unspawned" => wpc[c] # "unstarted"
        /\ pc[c] \in {"open_resp", "read", "wait", "exit_simple", "exit_mesh", "done"}
               => cpc[c] # "unspawned"
        /\ (simple_path[c] # NoPath /\ pipes[simple_path[c]].rd # "none")
               => cpc[c] # "unspawned"

C6_Witness ==
    /\ pc["a"] = "read"
    /\ pipes[simple_path["a"]].rd = "open"
    /\ wpc["a"] # "unstarted"
    /\ cpc["a"] # "unspawned"

\* C10: when a call has ended, its writer thread has ended.
C10_WriterJoined ==
    \A c \in Calls : pc[c] = "done" => wpc[c] \in {"done", "failed"}

Fg == {c \in Coords(Shape) : labelStack[c] > 0}

\* C7: for a volume with a voxel > 0 the box holds every such voxel in
\* [min, max) on each axis and is tight on both sides of each axis; for a
\* volume without one, findBBDimensions raises and no box is returned.
C7_BoxCoversAndIsMinimal ==
    bpc \notin {"idle", "where"} =>
        IF Fg = {}
        THEN bpc = "raised" /\ box = <<>>
        ELSE /\ bpc # "raised"
             /\ Len(box) = 6
             /\ \A a \in 1..3 :
                    /\ \A c \in Fg : box[2 * a - 1] <= c[a] /\ c[a] < box[2 * a]
                    /\ \E c \in Fg : c[a] = box[2 * a - 1]
                    /\ \E c \in Fg : c[a] = box[2 * a] - 1

C7_Witness ==
    /\ bpc = "crop"
    /\ Cardinality(Fg) = 2
    /\ box[2] - box[1] = 2
    /\ box[3] = 1
    /\ box[4] = 2
    /\ box[6] - box[5] = 2

\* C8: the padded volume is two voxels larger than the window on every axis,
\* is false on every border index, and is true at (i+1, j+1, k+1) exactly
\* when the window is > 0 at (i, j, k).
C8_PaddedWindow ==
    bpc = "march" =>
        /\ \A a \in 1..3 : paddedWindowSize[a] = windowShape[a] + 2
        /\ DOMAIN blankImg = Coords(paddedWindowSize)
        /\ DOMAIN window = Coords(windowShape)
        /\ \A p \in DOMAIN blankImg :
               (\E a \in 1..3 : p[a] = 0 \/ p[a] = paddedWindowSize[a] - 1)
                   => ~blankImg[p]
        /\ \A c \in DOMAIN window :
               blankImg[<<c[1] + 1, c[2] + 1, c[3] + 1>>] <=> window[c] > 0
        /\ \A c \in DOMAIN window :
               window[c] = labelStack[<<c[1] + box[1], c[2] + box[3], c[3] + box[5]>>]

C8_Witness ==
    /\ bpc = "march"
    /\ windowShape = <<2, 2, 1>>
    /\ \E c \in DOMAIN window : window[c] = 0
    /\ \E c \in DOMAIN window : window[c] > 0

BothRunsDone == \A r \in Runs : tpc[r] = "faces"

\* C9 as stated: for every box, the run with k * downsample_factor yields k
\* times each coordinate of the run with downsample_factor.
C9_LinearForEveryBox ==
    BothRunsDone =>
        \A i \in 1..Len(raw) : \A j \in 1..3 :
            vertices_xyz["scaled"][i][j] = scale * vertices_xyz["base"][i][j]

\* C9 amended: the outputs are k times each other when the box's minimum
\* corner is the origin; for any box, the output less the minimum corner is
\* scaled by k.
C9_LinearUpToTranslation ==
    BothRunsDone =>
        LET o == <<box_zyx[1][3], box_zyx[1][2], box_zyx[1][1]>>
        IN  \A i \in 1..Len(raw) : \A j \in 1..3 :
                /\ vertices_xyz["scaled"][i][j] - o[j]
                       = scale * (vertices_xyz["base"][i][j] - o[j])
                /\ box_zyx[1] = <<0, 0, 0>> =>
                       vertices_xyz["scaled"][i][j] = scale * vertices_xyz["base"][i][j]

C9_Witness ==
    /\ BothRunsDone
    /\ box_zyx[1] = <<0, 0, 0>>
    /\ scale = 2
    /\ Len(raw) = 1
    /\ raw[1] = <<1, 0, 1>>
    /\ vertices_xyz["base"][1] = <<2, 0, 2>>
    /\ vertices_xyz["scaled"][1] = <<4, 0, 4>>

====
